---- MODULE Spec2Model ----
(***************************************************************************)
(* Model of the two scripts of the RAG workflow:                           *)
(*   rag_ingestion.py  wipes the persisted store, loads the documents of   *)
(*                     the data directory and ingests them;                *)
(*   query_rag.py      loads the persisted collection, builds a streaming  *)
(*                     query engine and runs the interactive chat loop.    *)
(* The scripts are run one at a time from a shell; between two runs the    *)
(* operator may change the data directory or remove the store directory.   *)
(* The embedding model, the language model and the vector database are     *)
(* external: what they return (retrieved nodes, tokens, exceptions) is     *)
(* drawn nondeterministically.                                             *)
(***************************************************************************)
EXTENDS Integers, Sequences, FiniteSets, TLC

\* ------------------------------------------------------------------ bounds
MaxFiles == 2
MaxRuns == 2
MaxInputs == 2
MaxTokens == 2

\* similarity_top_k of the query engine
TopK == 3

Files == 1..MaxFiles

VARIABLES
    \* the file system
    dataDir,        \* DATA_DIR: [exists, files, other]
    store,          \* PERSIST_DIR: [pe, ce, coll]
    \* rag_ingestion.py
    ipc,            \* position of the ingestion run
    iExit,          \* its exit code (NoExit while running)
    iFail,          \* where it exited non-zero
    iDocs,          \* the documents load_documents returned
    runs,           \* ingestion runs started so far (fresh node ids per run)
    storeBefore,    \* the store as the current/last ingestion run found it
    storeAsLeft,    \* the store is untouched since the last ingestion run ended
    prevSuccess,    \* [docs, content, count] left by the run before, if it succeeded
    \* query_rag.py
    qpc,            \* position of the query run
    qExit,          \* its exit code
    qDiag,          \* a startup diagnostic was printed
    qSeen,          \* the store as load_vector_store_and_index found it
    engineCreated,  \* create_query_engine has run
    chatState,      \* state of run_chat_loop
    reads,          \* the input lines read in this session
    lastInput,      \* the last line read
    queryCalls,     \* the calls of query_engine.query in this session
    issuedForLast,  \* the calls of query_engine.query for the last line read
    question,       \* the string passed to the last call of query_engine.query
    resp,           \* the response object of the current query
    printedTokens,  \* tokens of the current query printed so far
    printedSources, \* source nodes of the current query printed so far
    lastExc,        \* the last exception raised inside the loop's try block
    lastEvent       \* what the loop did last

fsVars == <<dataDir, store>>
iVars == <<ipc, iExit, iFail, iDocs, runs, storeBefore, storeAsLeft, prevSuccess>>
qVars == <<qpc, qExit, qDiag, qSeen, engineCreated, chatState, reads, lastInput,
           queryCalls, issuedForLast, question,
           resp, printedTokens, printedSources, lastExc, lastEvent>>
vars == <<fsVars, iVars, qVars>>

\* no exit code yet: the process has not ended
NoExit == 0 - 1

\* ------------------------------------------------------------ input lines
Space == {" ", "\t"}

LowerChar(c) ==
    CASE c = "E" -> "e" [] c = "X" -> "x" [] c = "I" -> "i" [] c = "T" -> "t"
      [] c = "Q" -> "q" [] c = "U" -> "u" [] c = "H" -> "h"
      [] OTHER -> c

\* str.lower()
Lower(s) == [i \in 1..Len(s) |-> LowerChar(s[i])]

RECURSIVE LStrip(_)
LStrip(s) == IF s = <<>> THEN s
             ELSE IF Head(s) \in Space THEN LStrip(Tail(s)) ELSE s

RECURSIVE RStrip(_)
RStrip(s) == IF s = <<>> THEN s
             ELSE IF s[Len(s)] \in Space THEN RStrip(SubSeq(s, 1, Len(s) - 1)) ELSE s

\* str.strip()
Strip(s) == RStrip(LStrip(s))

ExitKeywords == { <<"q", "u", "i", "t">>, <<"e", "x", "i", "t">> }

\* the lines the user may type
Lines == { <<>>,
           <<" ", "\t">>,
           <<"e", "x", "i", "t">>,
           <<"Q", "U", "I", "T">>,
           <<"E", "x", "i", "t">>,
           <<"e", "x", "i", "t", " ">>,
           <<" ", "Q", "u", "i", "t">>,
           <<"h", "i">> }

\* line 88: user_input.lower() in ['quit', 'exit']
IsExitStripped(line) == Strip(Lower(line)) \in ExitKeywords
IsExitCaseSensitive(line) == line \in ExitKeywords
IsExit(line) == Lower(line) \in ExitKeywords

\* line 90: user_input.strip() is falsy
IsBlankRaw(line) == line = <<>>
IsBlank(line) == Strip(line) = <<>>

\* lines 88-126: what the loop does with a line it read
DispatchNoExit(line) == IF ~IsBlank(line) THEN "query" ELSE "reprompt"
Dispatch(line) ==
    IF IsExit(line) THEN "break"
    ELSE IF ~IsBlank(line) THEN "query"
    ELSE "reprompt"

\* ------------------------------------------------------------- exceptions
\* "Exception" stands for any Exception subclass other than EOFError
ErrorKinds == {"Exception", "EOFError"}
NoExc == [kind |-> "none", phase |-> "none"]

\* lines 127-136: the except clauses, in order
HandlerInterruptContinues(kind) ==
    IF kind = "EOFError" THEN "break"
    ELSE IF kind = "KeyboardInterrupt" THEN "continue"
    ELSE "continue"
Handler(kind) ==
    IF kind = "EOFError" THEN "break"
    ELSE IF kind = "KeyboardInterrupt" THEN "break"
    ELSE "continue"

AfterHandler(kind) ==
    IF Handler(kind) = "break" THEN "TERMINATED" ELSE "WAITING_FOR_INPUT"

\* ------------------------------------------------------------------ store
EmptyStore == [pe |-> FALSE, ce |-> FALSE, coll |-> {}]

Entry(r, f) == [run |-> r, file |-> f]

\* lines 34-36: rmtree when the directory exists
Wiped(s) == IF s.pe THEN EmptyStore ELSE s
\* line 38
MakeDirs(s) == [s EXCEPT !.pe = TRUE]
\* line 43: get_or_create_collection
GetOrCreate(s) == IF s.ce THEN s ELSE [s EXCEPT !.ce = TRUE, !.coll = {}]

InitializeVectorStoreNoWipe(s) == GetOrCreate(MakeDirs(s))
InitializeVectorStoreDirOnly(s) == MakeDirs(Wiped(s))
InitializeVectorStore(s) == GetOrCreate(MakeDirs(Wiped(s)))

\* --------------------------------------------------------- data directory
\* files: the loadable text files of the directory; other: an entry that is
\* not one: "hidden" is skipped by the reader, "nodoc" is read and yields no
\* document
MissingDir == [exists |-> FALSE, files |-> {}, other |-> "none"]
DirStates == {MissingDir}
             \cup [exists : {TRUE}, files : {{}}, other : {"none", "hidden", "nodoc"}]
             \cup [exists : {TRUE}, files : (SUBSET Files) \ {{}}, other : {"none"}]

\* os.listdir(DATA_DIR) is non-empty
Listed(d) == d.files # {} \/ d.other # "none"

\* lines 50-66
LoadDocuments(d) ==
    IF ~d.exists \/ ~Listed(d)
        THEN [outcome |-> "exit_missing_or_empty", docs |-> {}]
    ELSE IF d.files = {} /\ d.other = "hidden"
        THEN [outcome |-> "exit_value_error", docs |-> {}]
    ELSE IF d.files = {}
        THEN [outcome |-> "exit_no_documents", docs |-> {}]
    ELSE [outcome |-> "ok", docs |-> d.files]

\* lines 68-79: one entry per document, with node ids fresh in every run
Ingested(s, docs, r) == [s EXCEPT !.coll = s.coll \cup {Entry(r, f) : f \in docs}]

\* the content of a collection, node ids left out
Content(c) == {e.file : e \in c}

\* the run before did not succeed, or the store was touched since
NoPrev == [docs |-> {}, content |-> {}, count |-> 0]

\* ---------------------------------------------------------- query startup
\* lines 45-58
LoadOutcomeGetOrCreate(s) ==
    IF ~s.pe THEN "exit_no_dir" ELSE "ok"
LoadOutcome(s) ==
    IF ~s.pe THEN "exit_no_dir"
    ELSE IF ~s.ce THEN "exit_no_collection"
    ELSE "ok"

\* -------------------------------------------------------------- retrieval
\* the ranked source nodes of a query: min(TopK, entries) distinct entries
Min(a, b) == IF a < b THEN a ELSE b
Rankings(c) ==
    LET n == Min(TopK, Cardinality(c))
    IN {s \in [1..n -> c] : \A i, j \in 1..n : i # j => s[i] # s[j]}

\* no question has been passed to the engine: not a line
NoQuestion == <<"<none>">>

NoResp == [hasGen |-> FALSE, tokens |-> 0, nodes |-> <<>>]

\* lines 116-121: the node printed next
NextSourceReversed(nodes, printed) == nodes[Len(nodes) - Len(printed)]
NextSource(nodes, printed) == nodes[Len(printed) + 1]

\* ------------------------------------------------------------------- Init
InitStores ==
    {EmptyStore, [pe |-> TRUE, ce |-> FALSE, coll |-> {}]}
    \cup {[pe |-> TRUE, ce |-> TRUE, coll |-> {Entry(0, f) : f \in fs}] : fs \in SUBSET Files}

Init ==
    /\ dataDir \in DirStates
    /\ store \in InitStores
    /\ ipc = "idle" /\ iExit = NoExit /\ iFail = "none" /\ iDocs = {}
    /\ runs = 0
    /\ storeBefore = store
    /\ storeAsLeft = FALSE
    /\ prevSuccess = NoPrev
    /\ qpc = "idle" /\ qExit = NoExit /\ qDiag = FALSE
    /\ qSeen = EmptyStore
    /\ engineCreated = FALSE
    /\ chatState = "NONE"
    /\ reads = 0 /\ lastInput = <<>>
    /\ queryCalls = 0 /\ issuedForLast = 0 /\ question = NoQuestion
    /\ resp = NoResp
    /\ printedTokens = 0 /\ printedSources = <<>>
    /\ lastExc = NoExc
    /\ lastEvent = "none"

NoProcess == ipc \in {"idle", "done"} /\ qpc \in {"idle", "done"}

\* a new process image: nothing of an earlier query run is left
QFresh ==
    /\ qExit' = NoExit /\ qDiag' = FALSE
    /\ qSeen' = EmptyStore
    /\ engineCreated' = FALSE
    /\ chatState' = "NONE"
    /\ reads' = 0 /\ lastInput' = <<>>
    /\ queryCalls' = 0 /\ issuedForLast' = 0 /\ question' = NoQuestion
    /\ resp' = NoResp
    /\ printedTokens' = 0 /\ printedSources' = <<>>
    /\ lastExc' = NoExc
    /\ lastEvent' = "none"

\* the next shell command clears the terminal of the query run before it
QCleared == qpc' = "idle" /\ QFresh

\* ------------------------------------------------------------ environment
EnvSetDataDir(d) ==
    /\ NoProcess
    /\ d # dataDir
    /\ dataDir' = d
    /\ QCleared
    /\ UNCHANGED <<store, iVars>>

EnvRemoveStore ==
    /\ NoProcess
    /\ store.pe
    /\ store' = EmptyStore
    /\ storeAsLeft' = FALSE
    /\ QCleared
    /\ UNCHANGED <<dataDir, ipc, iExit, iFail, iDocs, runs, storeBefore, prevSuccess>>

\* ------------------------------------------------------- rag_ingestion.py
IStart ==
    /\ NoProcess
    /\ runs < MaxRuns
    /\ runs' = runs + 1
    /\ ipc' = "setup" /\ iExit' = NoExit /\ iFail' = "none" /\ iDocs' = {}
    /\ storeBefore' = store
    /\ storeAsLeft' = TRUE
    /\ prevSuccess' = IF ipc = "done" /\ iExit = 0 /\ storeAsLeft
                      THEN [docs |-> iDocs, content |-> Content(store.coll),
                            count |-> Cardinality(store.coll)]
                      ELSE NoPrev
    /\ QCleared
    /\ UNCHANGED fsVars

\* line 85
ISetup ==
    /\ ipc = "setup"
    /\ ipc' = "init"
    /\ UNCHANGED <<fsVars, iExit, iFail, iDocs, runs, storeBefore, storeAsLeft, prevSuccess, qVars>>

\* line 86
IInitStore ==
    /\ ipc = "init"
    /\ store' = InitializeVectorStore(store)
    /\ ipc' = "load"
    /\ UNCHANGED <<dataDir, iExit, iFail, iDocs, runs, storeBefore, storeAsLeft, prevSuccess, qVars>>

\* line 87
ILoad ==
    /\ ipc = "load"
    /\ LET r == LoadDocuments(dataDir)
       IN IF r.outcome = "ok"
          THEN /\ iDocs' = r.docs
               /\ ipc' = "ingest"
               /\ UNCHANGED <<iExit, iFail>>
          ELSE /\ ipc' = "done"
               /\ iExit' = 1
               /\ iFail' = r.outcome
               /\ UNCHANGED iDocs
    /\ UNCHANGED <<fsVars, runs, storeBefore, storeAsLeft, prevSuccess, qVars>>

\* line 88, every document embedded and persisted
IIngest ==
    /\ ipc = "ingest"
    /\ store' = Ingested(store, iDocs, runs)
    /\ ipc' = "done" /\ iExit' = 0
    /\ UNCHANGED <<dataDir, iFail, iDocs, runs, storeBefore, storeAsLeft, prevSuccess, qVars>>

\* line 88, the embedding or the write fails part-way: the exception is not
\* caught, the interpreter exits with code 1 and what was written stays
IIngestFail ==
    /\ ipc = "ingest"
    /\ \E part \in SUBSET iDocs :
          /\ part # iDocs
          /\ store' = Ingested(store, part, runs)
    /\ ipc' = "done" /\ iExit' = 1 /\ iFail' = "ingest"
    /\ UNCHANGED <<dataDir, iDocs, runs, storeBefore, storeAsLeft, prevSuccess, qVars>>

IngestNext == IStart \/ ISetup \/ IInitStore \/ ILoad \/ IIngest \/ IIngestFail

\* ------------------------------------------------------------ query_rag.py
InChat == qpc = "chat"

QStart ==
    /\ NoProcess
    /\ qpc' = "setup"
    /\ QFresh
    /\ UNCHANGED <<fsVars, iVars>>

\* line 144: the model clients are configured, no model is called
QSetup ==
    /\ qpc = "setup"
    /\ qpc' = "load"
    /\ UNCHANGED <<fsVars, iVars, qExit, qDiag, qSeen, engineCreated, chatState, reads, lastInput,
                   queryCalls, issuedForLast, question, resp, printedTokens, printedSources, lastExc, lastEvent>>

\* line 145
QLoad ==
    /\ qpc = "load"
    /\ qSeen' = store
    /\ IF LoadOutcome(store) = "ok"
       THEN /\ qpc' = "engine"
            /\ UNCHANGED <<qExit, qDiag>>
       ELSE /\ qpc' = "done"
            /\ qExit' = 1
            /\ qDiag' = TRUE
    /\ UNCHANGED <<fsVars, iVars, engineCreated, chatState, reads, lastInput,
                   queryCalls, issuedForLast, question, resp, printedTokens, printedSources, lastExc, lastEvent>>

\* lines 146-147 and 84: the engine is created and the loop entered
QCreateEngine ==
    /\ qpc = "engine"
    /\ engineCreated' = TRUE
    /\ qpc' = "chat"
    /\ chatState' = "WAITING_FOR_INPUT"
    /\ UNCHANGED <<fsVars, iVars, qExit, qDiag, qSeen, reads, lastInput,
                   queryCalls, issuedForLast, question, resp, printedTokens, printedSources, lastExc, lastEvent>>

\* lines 87-93 and 125-126: a line is read and dispatched
ChatReadLine(line) ==
    /\ InChat /\ chatState = "WAITING_FOR_INPUT"
    /\ reads < MaxInputs
    /\ reads' = reads + 1
    /\ lastInput' = line
    /\ lastEvent' = "input"
    /\ lastExc' = NoExc
    /\ resp' = NoResp /\ printedTokens' = 0 /\ printedSources' = <<>>
    /\ CASE Dispatch(line) = "break" ->
                /\ chatState' = "TERMINATED"
                /\ issuedForLast' = 0
                /\ UNCHANGED <<queryCalls, question>>
         [] Dispatch(line) = "query" ->
                /\ chatState' = "QUERYING"
                /\ queryCalls' = queryCalls + 1
                /\ issuedForLast' = 1
                /\ question' = line
         [] OTHER ->
                /\ chatState' = "WAITING_FOR_INPUT"
                /\ issuedForLast' = 0
                /\ UNCHANGED <<queryCalls, question>>
    /\ UNCHANGED <<fsVars, iVars, qpc, qExit, qDiag, qSeen, engineCreated>>

\* an exception of class kind is raised inside the try block while the loop
\* is in state chatState, and the except clauses handle it
Raise(kind) ==
    /\ lastExc' = [kind |-> kind, phase |-> chatState]
    /\ lastEvent' = "raise"
    /\ chatState' = AfterHandler(kind)

\* line 87: input() meets the end of the input
ChatEOF ==
    /\ InChat /\ chatState = "WAITING_FOR_INPUT"
    /\ Raise("EOFError")
    /\ UNCHANGED <<fsVars, iVars, qpc, qExit, qDiag, qSeen, engineCreated, reads, lastInput,
                   queryCalls, issuedForLast, question, resp, printedTokens, printedSources>>

\* Ctrl-C at the prompt, during the query, the stream or the source listing
ChatInterrupt ==
    /\ InChat
    /\ chatState \in {"WAITING_FOR_INPUT", "QUERYING", "STREAMING_OUTPUT", "SURFACING_SOURCES"}
    /\ Raise("KeyboardInterrupt")
    /\ UNCHANGED <<fsVars, iVars, qpc, qExit, qDiag, qSeen, engineCreated, reads, lastInput,
                   queryCalls, issuedForLast, question, resp, printedTokens, printedSources>>

\* line 94: the engine retrieves, renders the prompt and returns the response
ChatQueryReturn ==
    /\ InChat /\ chatState = "QUERYING"
    /\ \E nodes \in Rankings(store.coll), gen \in BOOLEAN, n \in 0..MaxTokens :
          /\ gen \/ n = 0
          /\ resp' = [hasGen |-> gen, tokens |-> n, nodes |-> nodes]
    /\ chatState' = "STREAMING_OUTPUT"
    /\ lastEvent' = "response"
    /\ UNCHANGED <<fsVars, iVars, qpc, qExit, qDiag, qSeen, engineCreated, reads, lastInput,
                   queryCalls, issuedForLast, question, printedTokens, printedSources, lastExc>>

\* line 94 raises: retrieval or the model request fails
ChatQueryRaise(kind) ==
    /\ InChat /\ chatState = "QUERYING"
    /\ Raise(kind)
    /\ UNCHANGED <<fsVars, iVars, qpc, qExit, qDiag, qSeen, engineCreated, reads, lastInput,
                   queryCalls, issuedForLast, question, resp, printedTokens, printedSources>>

\* lines 98-99: one more token is pulled and printed
ChatToken ==
    /\ InChat /\ chatState = "STREAMING_OUTPUT"
    /\ resp.hasGen /\ printedTokens < resp.tokens
    /\ printedTokens' = printedTokens + 1
    /\ lastEvent' = "token"
    /\ UNCHANGED <<fsVars, iVars, qpc, qExit, qDiag, qSeen, engineCreated, chatState,
                   reads, lastInput,
           queryCalls, issuedForLast, question, resp, printedSources, lastExc>>

\* line 98: pulling from the generator raises instead of yielding the next
\* token or ending the stream
ChatStreamRaise(kind) ==
    /\ InChat /\ chatState = "STREAMING_OUTPUT"
    /\ resp.hasGen
    /\ Raise(kind)
    /\ UNCHANGED <<fsVars, iVars, qpc, qExit, qDiag, qSeen, engineCreated, reads, lastInput,
                   queryCalls, issuedForLast, question, resp, printedTokens, printedSources>>

\* lines 100-115 (or 103-107 without a generator): the answer is complete
ChatStreamEnd ==
    /\ InChat /\ chatState = "STREAMING_OUTPUT"
    /\ printedTokens = resp.tokens
    /\ chatState' = "SURFACING_SOURCES"
    /\ lastEvent' = "stream_end"
    /\ UNCHANGED <<fsVars, iVars, qpc, qExit, qDiag, qSeen, engineCreated, reads, lastInput,
                   queryCalls, issuedForLast, question, resp, printedTokens, printedSources, lastExc>>

\* lines 116-121: the next source node is printed
ChatPrintSource ==
    /\ InChat /\ chatState = "SURFACING_SOURCES"
    /\ Len(printedSources) < Len(resp.nodes)
    /\ printedSources' = Append(printedSources, NextSource(resp.nodes, printedSources))
    /\ lastEvent' = "source"
    /\ UNCHANGED <<fsVars, iVars, qpc, qExit, qDiag, qSeen, engineCreated, chatState,
                   reads, lastInput,
           queryCalls, issuedForLast, question, resp, printedTokens, lastExc>>

\* lines 122-124: the listing is complete, back to the prompt
ChatSourcesDone ==
    /\ InChat /\ chatState = "SURFACING_SOURCES"
    /\ Len(printedSources) = Len(resp.nodes)
    /\ chatState' = "WAITING_FOR_INPUT"
    /\ lastEvent' = "answered"
    /\ UNCHANGED <<fsVars, iVars, qpc, qExit, qDiag, qSeen, engineCreated,
                   reads, lastInput,
           queryCalls, issuedForLast, question, resp, printedTokens, printedSources, lastExc>>

\* lines 137 and 149: the loop is left, main returns, exit code 0
ChatExit ==
    /\ InChat /\ chatState = "TERMINATED"
    /\ qpc' = "done"
    /\ qExit' = 0
    /\ UNCHANGED <<fsVars, iVars, qDiag, qSeen, engineCreated, chatState, reads, lastInput,
                   queryCalls, issuedForLast, question, resp, printedTokens, printedSources, lastExc, lastEvent>>

QueryNext ==
    \/ QStart \/ QSetup \/ QLoad \/ QCreateEngine
    \/ \E line \in Lines : ChatReadLine(line)
    \/ ChatEOF \/ ChatInterrupt
    \/ ChatQueryReturn
    \/ \E kind \in ErrorKinds : ChatQueryRaise(kind)
    \/ ChatToken
    \/ \E kind \in ErrorKinds : ChatStreamRaise(kind)
    \/ ChatStreamEnd \/ ChatPrintSource \/ ChatSourcesDone \/ ChatExit

EnvNext == (\E d \in DirStates : EnvSetDataDir(d)) \/ EnvRemoveStore

Next == EnvNext \/ IngestNext \/ QueryNext

Spec == Init /\ [][Next]_vars

\* the chat loop alone: one query run after another over a store that stays
InitChat == Init /\ dataDir = MissingDir

SpecChat == InitChat /\ [][QueryNext]_vars

\* ----------------------------------------------------------------- claims
\* what the claims call an exit keyword, a blank line and a padded keyword,
\* stated on the characters of the line
UpperChar(c) ==
    CASE c = "e" -> "E" [] c = "x" -> "X" [] c = "i" -> "I" [] c = "t" -> "T"
      [] c = "q" -> "Q" [] c = "u" -> "U"
      [] OTHER -> c

ExitWord(line) ==
    \E k \in ExitKeywords :
        /\ Len(line) = Len(k)
        /\ \A i \in 1..Len(k) : line[i] = k[i] \/ line[i] = UpperChar(k[i])

BlankLine(line) == \A i \in 1..Len(line) : line[i] \in {" ", "\t"}

PaddedExitWord(line) ==
    \E a, b \in 0..Len(line) :
        /\ a + b > 0 /\ a + b < Len(line)
        /\ BlankLine(SubSeq(line, 1, a))
        /\ BlankLine(SubSeq(line, Len(line) - b + 1, Len(line)))
        /\ ExitWord(SubSeq(line, a + 1, Len(line) - b))

QueryPhases == {"QUERYING", "STREAMING_OUTPUT"}

\* C1: an error (any Exception) raised while the loop is in QUERYING or
\* STREAMING_OUTPUT is caught and the loop is back in WAITING_FOR_INPUT, the
\* session not terminated.
C1_QueryErrorReturnsToPrompt ==
    (lastEvent = "raise" /\ lastExc.kind \in ErrorKinds /\ lastExc.phase \in QueryPhases)
        => (qpc = "chat" /\ chatState = "WAITING_FOR_INPUT")

\* C2: once the last line read is "quit" or "exit" in any letter case, the
\* loop is TERMINATED, nothing happened after the line was read (no query for
\* it, no further read), and the process ends with exit code 0.
C2_ExitKeywordTerminates ==
    (reads > 0 /\ ExitWord(lastInput))
        => /\ chatState = "TERMINATED"
           /\ lastEvent = "input"
           /\ issuedForLast = 0
           /\ question # lastInput
           /\ qpc \in {"chat", "done"}
           /\ (qpc = "done" => qExit = 0)

C2_Witness ==
    /\ qpc = "done" /\ qExit = 0
    /\ lastInput = <<"Q", "U", "I", "T">>
    /\ reads = 2 /\ queryCalls = 1

\* C3: a query run that finds the store directory missing, or the collection
\* missing from it, ends with a diagnostic and exit code 1; the engine is not
\* created, the chat loop not entered, no line read and no query issued.
C3_MissingStoreFailsFast ==
    (qpc \in {"engine", "chat", "done"} /\ (~qSeen.pe \/ ~qSeen.ce))
        => /\ qpc = "done" /\ qExit = 1 /\ qDiag
           /\ ~engineCreated
           /\ chatState = "NONE"
           /\ reads = 0 /\ queryCalls = 0 /\ question = NoQuestion

C3_Witness ==
    /\ qpc = "done" /\ qExit = 1 /\ qDiag
    /\ qSeen.pe /\ ~qSeen.ce

\* C4: an ingestion run that exits because the data directory is missing or
\* empty leaves the collection it found persisted as it found it.
C4_FailedCheckLeavesStore ==
    (ipc = "done" /\ iFail = "exit_missing_or_empty" /\ storeAsLeft /\ storeBefore.ce)
        => (store.ce /\ store.coll = storeBefore.coll)

\* C5: after a successful ingestion run the collection holds exactly one entry
\* per document of the directory, all of this run (nothing of an earlier run
\* or of the earlier store survives or is doubled); and when the run before
\* succeeded on the same documents, count and content are what that run left.
C5_IngestionIdempotent ==
    (ipc = "done" /\ iExit = 0 /\ storeAsLeft)
        => /\ store.coll = {Entry(runs, f) : f \in iDocs}
           /\ Cardinality(store.coll) = Cardinality(iDocs)
           /\ (prevSuccess # NoPrev /\ prevSuccess.docs = iDocs)
                 => /\ Content(store.coll) = prevSuccess.content
                    /\ Cardinality(store.coll) = prevSuccess.count

C5_Witness ==
    /\ ipc = "done" /\ iExit = 0 /\ storeAsLeft
    /\ prevSuccess # NoPrev /\ prevSuccess.docs = iDocs
    /\ iDocs = Files
    /\ runs = 2

\* C6 as stated: an interrupt during QUERYING or STREAMING_OUTPUT returns the
\* loop to WAITING_FOR_INPUT and the session continues.
C6_InterruptReturnsToPrompt ==
    (lastEvent = "raise" /\ lastExc.kind = "KeyboardInterrupt" /\ lastExc.phase \in QueryPhases)
        => (qpc = "chat" /\ chatState = "WAITING_FOR_INPUT")

\* C6 as amended: an interrupt during QUERYING or STREAMING_OUTPUT aborts the
\* current query (no source listing) and ends the loop: TERMINATED, nothing
\* read afterwards, exit code 0.
C6_InterruptEndsSession ==
    (lastExc.kind = "KeyboardInterrupt" /\ lastExc.phase \in QueryPhases)
        => /\ chatState = "TERMINATED"
           /\ lastEvent = "raise"
           /\ printedSources = <<>>
           /\ qpc \in {"chat", "done"}
           /\ (qpc = "done" => qExit = 0)

C6_Witness ==
    /\ lastExc = [kind |-> "KeyboardInterrupt", phase |-> "STREAMING_OUTPUT"]
    /\ printedTokens = 1 /\ resp.tokens = 2
    /\ qpc = "done" /\ qExit = 0

\* C7: source nodes are printed only once every token of the query's stream
\* has been printed, in the order the engine returned them, all of them by
\* the time the loop is back at the prompt; a stream that failed leaves no
\* source listing.
C7_SourcesAfterStream ==
    /\ printedSources # <<>> => (resp.hasGen => printedTokens = resp.tokens)
    /\ Len(printedSources) <= Len(resp.nodes)
    /\ \A i \in 1..Len(printedSources) : printedSources[i] = resp.nodes[i]
    /\ lastEvent = "answered" => printedSources = resp.nodes
    /\ lastExc.phase = "STREAMING_OUTPUT" => printedSources = <<>>

C7_Witness ==
    /\ lastEvent = "answered"
    /\ resp.hasGen /\ resp.tokens = 2 /\ printedTokens = 2
    /\ Len(resp.nodes) = 2 /\ printedSources = resp.nodes

\* C8: a blank line leaves the loop in WAITING_FOR_INPUT without a query; the
\* engine is called exactly once for a line that is neither blank nor an exit
\* keyword, and not at all for any other line.
C8_BlankReprompts ==
    reads > 0
        => /\ (BlankLine(lastInput) /\ lastEvent = "input")
                 => (qpc = "chat" /\ chatState = "WAITING_FOR_INPUT")
           /\ issuedForLast = (IF ~BlankLine(lastInput) /\ ~ExitWord(lastInput) THEN 1 ELSE 0)
           /\ queryCalls <= reads

C8_Witness ==
    /\ reads = 2 /\ queryCalls = 1
    /\ lastInput = <<" ", "\t">>
    /\ lastEvent = "input"
    /\ chatState = "WAITING_FOR_INPUT"

\* C9: an ingestion run that exits non-zero in load_documents leaves the store
\* directory with the named collection, empty; a query run started on that
\* store passes both startup checks and enters the chat loop.
LoadFailures == {"exit_missing_or_empty", "exit_value_error", "exit_no_documents"}

C9_FailedLoadLeavesEmptyCollection ==
    (ipc = "done" /\ iExit = 1 /\ iFail \in LoadFailures /\ storeAsLeft)
        => /\ store = [pe |-> TRUE, ce |-> TRUE, coll |-> {}]
           /\ qpc \in {"engine", "chat", "done"}
                 => /\ qSeen = store
                    /\ qExit # 1 /\ ~qDiag
           /\ qpc \in {"chat", "done"} => engineCreated

C9_Witness ==
    /\ ipc = "done" /\ iExit = 1 /\ iFail = "exit_missing_or_empty" /\ storeAsLeft
    /\ storeBefore.coll # {}
    /\ qpc = "chat" /\ chatState = "STREAMING_OUTPUT"
    /\ resp.nodes = <<>>

\* C10: a line that is an exit keyword with leading or trailing whitespace
\* does not end the loop: the engine is called once for it, with the raw line
\* as the question.
C10_PaddedExitIsQueried ==
    (reads > 0 /\ PaddedExitWord(lastInput))
        => /\ issuedForLast = 1
           /\ question = lastInput
           /\ lastEvent = "input" => (qpc = "chat" /\ chatState = "QUERYING")

C10_Witness ==
    /\ lastInput = <<"e", "x", "i", "t", " ">>
    /\ question = lastInput
    /\ chatState = "SURFACING_SOURCES"

====
